---- MODULE Spec2Model ----
(***************************************************************************)
(* Stash (discord-tagger): the carousel sessions kept by the /get,        *)
(* /delete, /top and "Reply with Stash" flows, the button and modal       *)
(* handlers that act on them, and the media table they read and write.    *)
(*                                                                         *)
(* Every handler is an async function.  Node runs one handler at a time   *)
(* up to its next await, so each action below is one synchronous segment  *)
(* of a handler (from one await to the next) or the database / Discord    *)
(* operation the handler is awaiting.  Segments of different handlers     *)
(* interleave freely.  Rendering calls (interaction.reply / update /      *)
(* showModal) belong to the presentation layer; they are recorded as the  *)
(* handler's outcome.                                                      *)
(***************************************************************************)
EXTENDS Integers, Sequences, FiniteSets, TLC

\* ---------------------------------------------------------------- bounds
NumMedia == 2       \* media rows of the guild
MaxHandlers == 3    \* interactions dispatched in one behaviour
TicksPerTTL == 2    \* clock ticks that make up SESSION_TIMEOUT_MS
MaxTime == 3        \* last clock tick explored
MaxTextLen == 3     \* length of the texts enumerated character by character
MaxRun == 51        \* length of the longest single-token text
MaxTokens == 21     \* tokens of the longest many-token text

\* ------------------------------------------------------------- constants
SESSION_TIMEOUT_MS == 15 * 60 * 1000
TickMs == SESSION_TIMEOUT_MS \div TicksPerTTL
MAX_TAG_LENGTH == 50
MAX_TAGS_PER_ITEM == 20
MAX_SUGGESTED_TAGS == 5

Absent == 0         \* Map.get(key) === undefined / findIndex(...) === -1 + 1

Users == {"u1"}                 \* the member who interacts with the bot
Owners == Users \cup {"u2"}     \* the members who saved media
MediaIds == 1..NumMedia
HandlerIds == 1..MaxHandlers
Queries == {<<"a">>, <<"b">>}
\* the tag lists /get is searched with where ranking matters: one tag, two
\* tags, and a tag no record carries
SearchQueries == {<<"a">>, <<"b">>, <<"a", "b">>, <<"c">>}
\* the texts submitted in the edit modal, character by character
TagInputs == {<<>>, <<"!", ",">>, <<"A">>, <<" ", "b">>}

\* ------------------------------------------------------- pure operators
Range(s) == {s[i] : i \in 1..Len(s)}

\* Array.prototype.findIndex((m) => m.id === mediaId), 1-based; Absent for -1
FindIndex(list, mediaId) ==
  IF \E i \in 1..Len(list) : list[i].id = mediaId
  THEN CHOOSE i \in 1..Len(list) :
         /\ list[i].id = mediaId
         /\ \A j \in 1..(i - 1) : list[j].id # mediaId
  ELSE Absent

\* Array.prototype.splice(index, 1) at the 1-based position pos: removes the
\* element there when there is one, nothing when pos is past the end.
Splice(list, pos) ==
  [i \in 1..(IF pos <= Len(list) THEN Len(list) - 1 ELSE Len(list)) |->
     IF i < pos THEN list[i] ELSE list[i + 1]]

\* a replacement that always lands on the first element: results[0] = updatedMedia
ReplaceAtFirst(list, pos, rec) ==
  [i \in 1..(IF Len(list) = 0 THEN 1 ELSE Len(list)) |-> IF i = 1 THEN rec ELSE list[i]]

\* a replacement that adds the record at the end: results.push(updatedMedia)
ReplaceAtPush(list, pos, rec) == Append(list, rec)

\* results[mediaIndex] = updatedMedia at the 1-based position pos
ReplaceAt(list, pos, rec) ==
  [i \in 1..(IF pos > Len(list) THEN pos ELSE Len(list)) |->
     IF i = pos THEN rec ELSE list[i]]

Max(a, b) == IF a >= b THEN a ELSE b
Min(a, b) == IF a <= b THEN a ELSE b

\* --- TagService.normalizeTags, on texts given as sequences of characters ---
\* the characters /[\s,]/ splits on, the characters /[^a-z0-9_]/ keeps, and
\* the characters of the texts: those, an upper-case letter and punctuation
Separators == {" ", ","}
TagChars == {"a", "b", "_"}
Alphabet == TagChars \cup Separators \cup {"A", "!"}

\* String.prototype.toLowerCase
ToLowerCase(text) == [i \in 1..Len(text) |-> IF text[i] = "A" THEN "a" ELSE text[i]]

\* String.prototype.split(/[c1c2...]+/) for the characters seps: the pieces
\* between runs of separators; a text that starts or ends with a separator has
\* an empty first or last piece
RECURSIVE SplitOn(_, _)
SplitOn(text, seps) ==
  IF \A i \in 1..Len(text) : text[i] \notin seps THEN <<text>>
  ELSE LET from == CHOOSE i \in 1..Len(text) :
                     text[i] \in seps /\ \A j \in 1..(i - 1) : text[j] \notin seps
           to == CHOOSE j \in from..Len(text) :
                   /\ \A k \in from..j : text[k] \in seps
                   /\ j = Len(text) \/ text[j + 1] \notin seps
       IN  <<SubSeq(text, 1, from - 1)>> \o SplitOn(SubSeq(text, to + 1, Len(text)), seps)

\* String.prototype.split(/[\s,]+/)
Split(text) == SplitOn(text, Separators)

\* a token left as it was typed
KeepAll(token) == token

\* a replace without the g flag: only the first character outside the class goes
RECURSIVE StripFirst(_)
StripFirst(token) ==
  IF token = <<>> THEN <<>>
  ELSE IF Head(token) \notin TagChars THEN Tail(token)
  ELSE <<Head(token)>> \o StripFirst(Tail(token))

\* tag.replace(/[^a-z0-9_]/g, '')
Strip(token) == SelectSeq(token, LAMBDA c : c \in TagChars)

\* the tags with their repetitions
KeepDuplicates(tags) == tags

\* Array.from(new Set(tags)): each tag once, in the order of first insertion
RECURSIVE Dedupe(_)
Dedupe(tags) ==
  IF tags = <<>> THEN <<>>
  ELSE LET init == Dedupe(SubSeq(tags, 1, Len(tags) - 1))
           t == tags[Len(tags)]
       IN  IF t \in Range(init) THEN init ELSE Append(init, t)

\* TagService.normalizeTags(input): the tags, each a sequence of characters
normalizeTags(input) ==
  LET pieces == Split(ToLowerCase(input))
      stripped == [i \in 1..Len(pieces) |-> Strip(pieces[i])]
      nonEmpty == SelectSeq(stripped, LAMBDA t : Len(t) > 0)
      short == SelectSeq(nonEmpty, LAMBDA t : Len(t) <= MAX_TAG_LENGTH)
      unique == Dedupe(short)
  IN  SubSeq(unique, 1, Min(Len(unique), MAX_TAGS_PER_ITEM))

\* the guard of a save that forgets to reject an empty tag list
NoValidTagsIgnored(tags) == FALSE

\* tags.length === 0: validateTags returns null, the save commands reply and return
NoValidTags(tags) == Len(tags) = 0

\* the characters OcrService.filterToTags splits on: white space and punctuation,
\* the underscore included
OcrSeparators == Separators \cup {"!", "_"}

\* OcrService.filterToTags(rawText).  No stop word and no number is spelled
\* with the characters of Alphabet, so those two filters keep every word here.
filterToTags(rawText) ==
  LET pieces == SplitOn(ToLowerCase(rawText), OcrSeparators)
      words == SelectSeq(pieces, LAMBDA w : Len(w) > 0)
      stripped == [i \in 1..Len(words) |-> Strip(words[i])]
      long == SelectSeq(stripped, LAMBDA w : Len(w) >= 3)
      short == SelectSeq(long, LAMBDA w : Len(w) <= MAX_TAG_LENGTH)
      unique == Dedupe(short)
  IN  SubSeq(unique, 1, Min(Len(unique), MAX_SUGGESTED_TAGS))

\* the string a sequence of characters spells
RECURSIVE Str(_)
Str(token) == IF token = <<>> THEN "" ELSE Str(SubSeq(token, 1, Len(token) - 1)) \o token[Len(token)]

\* the tags as the strings stored in a record
TagStrings(tags) == [i \in 1..Len(tags) |-> Str(tags[i])]

\* tags.join(sep)
RECURSIVE Join(_, _)
Join(tags, sep) ==
  IF tags = <<>> THEN <<>>
  ELSE IF Len(tags) = 1 THEN tags[1]
  ELSE Join(SubSeq(tags, 1, Len(tags) - 1), sep) \o <<sep>> \o tags[Len(tags)]

\* the text made of n times the character c
Run(c, n) == [i \in 1..n |-> c]

\* the k-th of the three-character tags over the characters a, b and _
Word(k) ==
  LET digit == <<"a", "b", "_">>
  IN  <<digit[(k % 3) + 1], digit[((k \div 3) % 3) + 1], digit[((k \div 9) % 3) + 1]>>

\* the texts normalizeTags is applied to: every text of up to MaxTextLen
\* characters, one-token texts around MAX_TAG_LENGTH characters (bare and with
\* a character that is stripped), and comma-separated texts of up to MaxTokens
\* distinct tokens
ShortTexts == UNION {[1..n -> Alphabet] : n \in 0..MaxTextLen}
LongTexts ==
  {Run("a", n) : n \in (MAX_TAG_LENGTH - 1)..MaxRun}
    \cup {Run("a", n) \o <<"!">> : n \in (MAX_TAG_LENGTH - 1)..MaxRun}
ManyTexts ==
  {Join([k \in 1..n |-> Word(k)], ",") : n \in (MAX_TAGS_PER_ITEM - 1)..MaxTokens}
    \cup {Join([k \in 1..n |-> Word(n + 1 - k)], " ") \o <<",">> \o Word(n) :
            n \in (MAX_TAGS_PER_ITEM - 1)..MaxTokens}
Texts == ShortTexts \cup LongTexts \cup ManyTexts

\* the k-th of the three-letter words over the letters a and b
OcrWord(k) ==
  LET digit == <<"a", "b">>
  IN  <<digit[(k % 2) + 1], digit[((k \div 2) % 2) + 1], digit[((k \div 4) % 2) + 1]>>

\* the texts a save or an edit is submitted with: punctuation only, and more
\* tags than a record may hold
SaveInputs ==
  {<<"!", ",">>, Join([k \in 1..(MAX_TAGS_PER_ITEM + 1) |-> Word(k)], ",")}

\* the texts OCR reads off an image: a word too short to be a tag, one word,
\* and more words than are suggested
OcrTexts ==
  {<<"a", "b">>, <<"a", "A", "b", "!">>,
   Join([k \in 1..(MAX_SUGGESTED_TAGS + 1) |-> OcrWord(k)], " ")}

\* a navigation that wraps around at both ends
NavIndexWrap(action, idx, len) ==
  IF action = "prev" THEN (IF idx = 1 THEN len ELSE idx - 1)
  ELSE IF action = "next" THEN (IF idx = len THEN 1 ELSE idx + 1)
  ELSE Absent

\* handleNavigation: the 1-based index rendered by prev / next from idx
NavIndex(action, idx, len) ==
  IF action = "prev" THEN Max(1, idx - 1)
  ELSE IF action = "next" THEN Min(len, idx + 1)
  ELSE Absent

\* the MediaRecord value a query result or an update hands to the caller
Snapshot(table, m) ==
  [id |-> m, tags |-> table[m].tags, recallCount |-> table[m].recallCount]

\* a score that counts every search tag, present in the record or not
ScoreAll(searchTags, mediaTags) == Len(searchTags)

\* score = searchTags.filter((tag) => mediaTags.includes(tag)).length
Score(searchTags, mediaTags) ==
  Cardinality({i \in 1..Len(searchTags) : searchTags[i] \in Range(mediaTags)})

\* a comparator of score and createdAt only
SortsBeforeNoRecall(table, q, x, y) ==
  LET sx == Cardinality(Range(q) \cap Range(table[x].tags))
      sy == Cardinality(Range(q) \cap Range(table[y].tags))
  IN  \/ sx > sy
      \/ sx = sy /\ table[x].createdAt > table[y].createdAt

\* the comparator of scored.sort: TRUE when x must come before y
SortsBefore(table, q, x, y) ==
  LET sx == Score(q, table[x].tags)
      sy == Score(q, table[y].tags)
  IN  \/ sx > sy
      \/ sx = sy /\ table[x].recallCount > table[y].recallCount
      \/ sx = sy /\ table[x].recallCount = table[y].recallCount
                 /\ table[x].createdAt > table[y].createdAt

\* stable insertion of id x into an already sorted id sequence: x goes before
\* the first element it must precede, so after every element it ties with
RECURSIVE InsertSorted(_, _, _, _)
InsertSorted(table, q, x, sorted) ==
  IF sorted = <<>> THEN <<x>>
  ELSE IF SortsBefore(table, q, x, Head(sorted))
       THEN <<x>> \o sorted
       ELSE <<Head(sorted)>> \o InsertSorted(table, q, x, Tail(sorted))

\* scored.sort(comparator): Array.prototype.sort is stable
RECURSIVE StableSort(_, _, _)
StableSort(table, q, ids) ==
  IF ids = <<>> THEN <<>>
  ELSE InsertSorted(table, q, ids[Len(ids)],
                    StableSort(table, q, SubSeq(ids, 1, Len(ids) - 1)))

\* the orders in which a query can return the rows ids under an ORDER BY: each
\* row once, a row never after one it must precede; geq[x, y] says that x need
\* not come after y
RECURSIVE RowOrders(_, _)
RowOrders(ids, geq) ==
  IF ids = {} THEN {<<>>}
  ELSE UNION {{<<m>> \o s : s \in RowOrders(ids \ {m}, geq)} :
                m \in {x \in ids : \A y \in ids : geq[x, y]}}

\* prisma.media.findMany({ where: { guildId }, orderBy: { createdAt: 'desc' } }):
\* newest first; the order of rows with equal createdAt is the database's
FetchAll(table) ==
  RowOrders(DOMAIN table,
            [x \in DOMAIN table, y \in DOMAIN table |->
               table[x].createdAt >= table[y].createdAt])

\* SearchService.searchByTags for the single guild of the model: the results
\* it can return, one for each order the rows can be fetched in
SearchByTags(table, q) ==
  {LET hit(m) == Score(q, table[m].tags) > 0
       ids == StableSort(table, q, SelectSeq(all, hit))
   IN  [i \in 1..Len(ids) |-> Snapshot(table, ids[i])] : all \in FetchAll(table)}

\* an ordering of the rows ids by createdAt alone, newest first
TopOrderByDate(table, ids) ==
  RowOrders(ids, [x \in ids, y \in ids |-> table[x].createdAt >= table[y].createdAt])

\* orderBy: [{ recallCount: 'desc' }, { createdAt: 'desc' }] over the rows ids;
\* the order of rows equal in both is the database's
TopOrderOf(table, ids) ==
  RowOrders(ids,
            [x \in ids, y \in ids |->
               \/ table[x].recallCount > table[y].recallCount
               \/ /\ table[x].recallCount = table[y].recallCount
                  /\ table[x].createdAt >= table[y].createdAt])

\* the same over all rows
TopOrder(table) == TopOrderOf(table, DOMAIN table)

\* the values of mediaType met in the model, and the type option of a command:
\* a media type, or none ("none", typeFilter || undefined)
MediaTypes == {"image", "gif"}
TypeFilters == {"none"} \cup MediaTypes

\* where: { guildId, ...(typeFilter ? { mediaType: typeFilter } : {}) } for the
\* single guild of the model
Selected(table, typeFilter) ==
  {m \in DOMAIN table : typeFilter = "none" \/ table[m].mediaType = typeFilter}

\* SearchService.getTopMedia(guildId, typeFilter): the results it can return
getTopMedia(table, typeFilter) ==
  {[i \in 1..Len(ids) |-> Snapshot(table, ids[i])] :
     ids \in TopOrderOf(table, Selected(table, typeFilter))}

\* SearchService.getTopMedia without a type filter
GetTopMedia(table) == getTopMedia(table, "none")

\* ------------------------------------------------------------------ state
VARIABLES
  media,           \* the media table: id -> row
  heap,            \* the result arrays the searches allocated (by reference)
  recallSessions,  \* Map userId -> array
  deleteSessions,  \* Map userId -> array
  topSessions,     \* Map messageId -> array
  replyTargets,    \* Map userId -> reply target
  timers,          \* pending setTimeout callbacks
  now,             \* the clock, in ticks of TickMs
  posts,           \* the messages delivered to a destination
  hs,              \* the interactions: each handler's position and locals
  last             \* the latest response rendered, and by which interaction

vars == <<media, heap, recallSessions, deleteSessions, topSessions,
          replyTargets, timers, now, posts, hs, last>>

Null == -1         \* deletedAt: null

\* a handler not yet dispatched
Idle ==
  [pc |-> "idle", op |-> "none", act |-> "none", user |-> "none", msg |-> Absent,
   media |-> Absent, arr |-> Absent, idx |-> Absent, results |-> <<>>,
   target |-> Absent, query |-> <<>>, text |-> <<>>, newTags |-> <<>>,
   inCatch |-> FALSE, err |-> "none", typeFilter |-> "none",
   admin |-> FALSE,
   shown |-> Absent, out |-> "none"]

\* a handler that returned (or threw): who ran what on which array, and what
\* it rendered
Done(rec, outcome) ==
  [Idle EXCEPT !.pc = "done", !.op = rec.op, !.act = rec.act, !.user = rec.user,
               !.msg = rec.msg, !.media = rec.media, !.arr = rec.arr,
               !.admin = rec.admin, !.query = rec.query, !.text = rec.text,
               !.typeFilter = rec.typeFilter,
               !.out = outcome]

\* what is left of a returned handler: nothing but, for /top, its message
Returned(rec) ==
  [Idle EXCEPT !.pc = "done", !.msg = IF rec.op = "top" THEN rec.msg ELSE Absent]

\* handler h moves to rec; when it has returned, its response becomes the
\* latest response
Settle(h, rec) ==
  /\ hs' = [hs EXCEPT ![h] = IF rec.pc = "done" THEN Returned(rec) ELSE rec]
  /\ last' = IF rec.pc = "done" THEN [by |-> h, r |-> rec] ELSE last

\* the locals of a handler dispatched for user u
Dispatch(op, act, u, msg, m) ==
  [Idle EXCEPT !.op = op, !.act = act, !.user = u, !.msg = msg, !.media = m]

\* interactions are dispatched in the order of their ids
NextHandler(h) ==
  /\ hs[h].pc = "idle"
  /\ \A g \in HandlerIds : g < h => hs[g].pc # "idle"

InitTags(m) == IF m % 3 = 1 THEN <<"a">> ELSE IF m % 3 = 2 THEN <<"a", "b">> ELSE <<"b">>
InitOwner(m) == IF m % 2 = 1 THEN "u1" ELSE "u2"
InitType(m) == IF m % 2 = 1 THEN "image" ELSE "gif"

\* no session, no timer, no interaction yet
InitSessions ==
  /\ heap = <<>>
  /\ recallSessions = [u \in Users |-> Absent]
  /\ deleteSessions = [u \in Users |-> Absent]
  /\ topSessions = [m \in HandlerIds |-> Absent]
  /\ replyTargets = [u \in Users |-> Absent]
  /\ timers = {}
  /\ now = 0
  /\ posts = {}
  /\ hs = [h \in HandlerIds |-> Idle]
  /\ last = [by |-> Absent, r |-> Idle]

Init ==
  /\ media = [m \in MediaIds |->
                [userId |-> InitOwner(m), tags |-> InitTags(m), recallCount |-> 0,
                 createdAt |-> m, deletedAt |-> Null, mediaType |-> InitType(m)]]
  /\ InitSessions

\* a new array holding list, stored at the present time under key of store;
\* target is the reply target chosen by the flow that creates it, if any
Alloc(store, key, list) ==
  Append(heap, [list |-> list, store |-> store, key |-> key, at |-> now,
                target |-> Absent])

\* setTimeout(() => sessions.delete(key), SESSION_TIMEOUT_MS), armed right
\* after the array numbered Len(heap) + 1 was stored
SetTimeout(store, key) ==
  timers \cup {[store |-> store, key |-> key, due |-> now + TicksPerTTL,
                seq |-> Len(heap) + 1]}

\* ------------------------------------------------ the searching commands
\* validateTags returned null (or /get lacked the EmbedLinks permission): the
\* command replies and returns before any search
CommandRejected(h, u, op) ==
  /\ NextHandler(h)
  /\ Settle(h, Done(Dispatch(op, "none", u, Absent, Absent), "Rejected"))
  /\ UNCHANGED <<media, heap, recallSessions, deleteSessions, topSessions,
                 replyTargets, timers, now, posts>>

\* handleRecallCommand / handleDeleteCommand / handleReplyModalSubmit up to the
\* answer of SearchService.searchByTags, and handleTopCommand up to the answer
\* of getTopMedia and its reply: the query reads the table as it is now
CommandSearch(h, u, op, q, dbOk) ==
  /\ NextHandler(h)
  /\ \E results \in (IF op = "top" THEN GetTopMedia(media) ELSE SearchByTags(media, q)) :
       LET d == [Dispatch(op, "none", u, Absent, Absent) EXCEPT !.query = q]
       IN  Settle(h,
                    IF ~dbOk THEN Done(d, "SearchFailed")
                    ELSE IF results = <<>> THEN Done(d, "NoResults")
                    ELSE [d EXCEPT !.pc = "store", !.results = results,
                                   !.msg = IF op = "top" THEN h ELSE Absent])
  /\ UNCHANGED <<media, heap, recallSessions, deleteSessions, topSessions,
                 replyTargets, timers, now, posts>>

\* handleRecallCommand: recallSessions.set(userId, results); setTimeout(...)
RecallCommandStore(h) ==
  /\ hs[h].pc = "store" /\ hs[h].op = "get"
  /\ heap' = Alloc("recall", hs[h].user, hs[h].results)
  /\ recallSessions' = [recallSessions EXCEPT ![hs[h].user] = Len(heap')]
  /\ timers' = SetTimeout("recall", hs[h].user)
  /\ Settle(h, Done(hs[h], "Shown"))
  /\ UNCHANGED <<media, deleteSessions, topSessions, replyTargets, now, posts>>

\* handleDeleteCommand: deleteSessions.set(userId, results); setTimeout(...)
DeleteCommandStore(h) ==
  /\ hs[h].pc = "store" /\ hs[h].op = "delete"
  /\ heap' = Alloc("delete", hs[h].user, hs[h].results)
  /\ deleteSessions' = [deleteSessions EXCEPT ![hs[h].user] = Len(heap')]
  /\ timers' = SetTimeout("delete", hs[h].user)
  /\ Settle(h, Done(hs[h], "Shown"))
  /\ UNCHANGED <<media, recallSessions, topSessions, replyTargets, now, posts>>

\* handleTopCommand after its reply: topSessions.set(response.id, results);
\* setTimeout(...).  The message of handler h has id h.
TopCommandStore(h) ==
  /\ hs[h].pc = "store" /\ hs[h].op = "top"
  /\ heap' = Alloc("top", h, hs[h].results)
  /\ topSessions' = [topSessions EXCEPT ![h] = Len(heap')]
  /\ timers' = SetTimeout("top", h)
  /\ Settle(h, Done(hs[h], "Shown"))
  /\ UNCHANGED <<media, recallSessions, deleteSessions, replyTargets, now, posts>>

\* handleReplyModalSubmit: replyTargets.set(userId, ...); recallSessions.set(
\* userId, results).  No timer is armed.  The target message of flow h is h.
ReplyModalStore(h) ==
  /\ hs[h].pc = "store" /\ hs[h].op = "reply"
  /\ heap' = [Alloc("recall", hs[h].user, hs[h].results) EXCEPT
                ![Len(heap) + 1].target = h]
  /\ replyTargets' = [replyTargets EXCEPT ![hs[h].user] = h]
  /\ recallSessions' = [recallSessions EXCEPT ![hs[h].user] = Len(heap')]
  /\ Settle(h, Done(hs[h], "Shown"))
  /\ UNCHANGED <<media, deleteSessions, topSessions, timers, now, posts>>

\* ------------------------------------------------------------ navigation
Actions == {"prev", "next", "send", "confirm"}

\* handleNavigation(interaction, results, action, mediaId, mode): prev / next
\* render the clamped neighbour; any other action returns without rendering
Navigate(rec, list) ==
  LET idx == FindIndex(list, rec.media)
      new == NavIndex(rec.act, idx, Len(list))
  IN  IF idx = Absent \/ new = Absent THEN Done(rec, "Ignored")
      ELSE [Done(rec, "Shown") EXCEPT !.shown = list[new].id]

\* the preamble shared by the three button handlers, on the array ref found
\* under the key: the finished handler, or Idle when the preamble is passed
Preamble(rec, ref) ==
  IF ref = Absent THEN Done(rec, "Expired")
  ELSE IF FindIndex(heap[ref].list, rec.media) = Absent THEN Done(rec, "ItemMissing")
  ELSE Idle

\* ------------------------------------------------------------ /delete buttons
\* a handleDeleteButton that takes every action that is not prev or next for
\* the confirmation
handleDeleteButtonAnyAction(h, u, act, m) ==
  /\ NextHandler(h)
  /\ LET d == Dispatch("deleteBtn", act, u, Absent, m)
         ref == deleteSessions[u]
         pre == Preamble(d, ref)
     IN  Settle(h,
                  IF pre # Idle THEN pre
                  ELSE IF act \notin {"prev", "next"}
                       THEN [d EXCEPT !.pc = "deleteFind", !.arr = ref,
                                      !.idx = FindIndex(heap[ref].list, m)]
                       ELSE Navigate(d, heap[ref].list))
  /\ UNCHANGED <<media, heap, recallSessions, deleteSessions, topSessions,
                 replyTargets, timers, now, posts>>

\* handleDeleteButton up to its first await
handleDeleteButton(h, u, act, m) ==
  /\ NextHandler(h)
  /\ LET d == Dispatch("deleteBtn", act, u, Absent, m)
         ref == deleteSessions[u]
         pre == Preamble(d, ref)
     IN  Settle(h,
                  IF pre # Idle THEN pre
                  ELSE IF act = "confirm"
                       THEN [d EXCEPT !.pc = "deleteFind", !.arr = ref,
                                      !.idx = FindIndex(heap[ref].list, m)]
                       ELSE Navigate(d, heap[ref].list))
  /\ UNCHANGED <<media, heap, recallSessions, deleteSessions, topSessions,
                 replyTargets, timers, now, posts>>

\* a confirmDelete that removes the item from the list before the Repository
\* has answered (the commit ordering C9 excludes)
deleteMediaFindEager(h, isAdmin, dbOk) ==
  /\ hs[h].pc = "deleteFind"
  /\ heap' = [heap EXCEPT ![hs[h].arr].list = Splice(@, hs[h].idx)]
  /\ LET row == media[hs[h].media]
         call == [hs[h] EXCEPT !.admin = isAdmin]
     IN  Settle(h,
                  IF ~dbOk THEN Done(call, "Threw")
                  ELSE IF row.deletedAt # Null THEN Done(call, "Denied")
                  ELSE IF row.userId # hs[h].user /\ ~isAdmin THEN Done(call, "Denied")
                  ELSE [call EXCEPT !.pc = "deleteUpdate"])
  /\ UNCHANGED <<media, recallSessions, deleteSessions, topSessions,
                 replyTargets, timers, now, posts>>

\* a deleteMedia without the owner / admin test (the authorization C12 is about)
deleteMediaFindAnyone(h, isAdmin, dbOk) ==
  /\ hs[h].pc = "deleteFind"
  /\ LET row == media[hs[h].media]
         call == [hs[h] EXCEPT !.admin = isAdmin]
     IN  Settle(h,
                  IF ~dbOk THEN Done(call, "Threw")
                  ELSE IF row.deletedAt # Null THEN Done(call, "Denied")
                  ELSE [call EXCEPT !.pc = "deleteUpdate"])
  /\ UNCHANGED <<media, heap, recallSessions, deleteSessions, topSessions,
                 replyTargets, timers, now, posts>>

\* a confirmDelete that ends the session when the delete is denied
deleteMediaFindDrop(h, isAdmin, dbOk) ==
  /\ hs[h].pc = "deleteFind"
  /\ LET row == media[hs[h].media]
         call == [hs[h] EXCEPT !.admin = isAdmin]
         denied == dbOk /\ (row.deletedAt # Null \/ (row.userId # hs[h].user /\ ~isAdmin))
     IN  /\ deleteSessions' = IF denied
                              THEN [deleteSessions EXCEPT ![hs[h].user] = Absent]
                              ELSE deleteSessions
         /\ Settle(h,
                     IF ~dbOk THEN Done(call, "Threw")
                     ELSE IF denied THEN Done(call, "Denied")
                     ELSE [call EXCEPT !.pc = "deleteUpdate"])
  /\ UNCHANGED <<media, heap, recallSessions, topSessions,
                 replyTargets, timers, now, posts>>

\* MediaService.deleteMedia(id, userId, isAdmin): findFirst({ id, deletedAt:
\* null }) and the owner / admin test.  false makes the handler render the
\* denial and return.  isAdmin is the argument the handler passed.
deleteMediaFind(h, isAdmin, dbOk) ==
  /\ hs[h].pc = "deleteFind"
  /\ LET row == media[hs[h].media]
         call == [hs[h] EXCEPT !.admin = isAdmin]
     IN  Settle(h,
                  IF ~dbOk THEN Done(call, "Threw")
                  ELSE IF row.deletedAt # Null THEN Done(call, "Denied")
                  ELSE IF row.userId # hs[h].user /\ ~isAdmin THEN Done(call, "Denied")
                  ELSE [call EXCEPT !.pc = "deleteUpdate"])
  /\ UNCHANGED <<media, heap, recallSessions, deleteSessions, topSessions,
                 replyTargets, timers, now, posts>>

\* MediaService.deleteMedia: update({ where: { id }, data: { deletedAt } })
deleteMediaUpdate(h, dbOk) ==
  /\ hs[h].pc = "deleteUpdate"
  /\ IF dbOk
     THEN /\ media' = [media EXCEPT ![hs[h].media].deletedAt = now]
          /\ Settle(h, [hs[h] EXCEPT !.pc = "splice"])
     ELSE /\ media' = media
          /\ Settle(h, Done(hs[h], "Threw"))
  /\ UNCHANGED <<heap, recallSessions, deleteSessions, topSessions,
                 replyTargets, timers, now, posts>>

\* a removal that always takes the first element: results.splice(0, 1)
SpliceFirst(rec) == Tail(heap[rec.arr].list)

\* the list left by results.splice(currentIndex, 1) in handler record rec
SpliceResult(rec) == Splice(heap[rec.arr].list, rec.idx)

\* handleDeleteButton after deleteMedia returned true: results.splice(
\* currentIndex, 1), then the exhausted view or the item at the clamped index
deleteSplice(h) ==
  /\ hs[h].pc = "splice"
  /\ LET list == SpliceResult(hs[h])
         newIndex == IF hs[h].idx > Len(list) THEN Len(list) ELSE hs[h].idx
     IN  /\ heap' = [heap EXCEPT ![hs[h].arr].list = list]
         /\ Settle(h,
                     IF Len(list) = 0 THEN [hs[h] EXCEPT !.pc = "evict"]
                     ELSE [Done(hs[h], "Deleted") EXCEPT !.shown = list[newIndex].id])
  /\ UNCHANGED <<media, recallSessions, deleteSessions, topSessions,
                 replyTargets, timers, now, posts>>

\* handleDeleteButton after the exhausted view: deleteSessions.delete(userId)
deleteEvict(h) ==
  /\ hs[h].pc = "evict"
  /\ deleteSessions' = [deleteSessions EXCEPT ![hs[h].user] = Absent]
  /\ Settle(h, Done(hs[h], "Exhausted"))
  /\ UNCHANGED <<media, heap, recallSessions, topSessions,
                 replyTargets, timers, now, posts>>

\* --------------------------------------------------------------- /top buttons
\* the /top messages whose carousel is shown and stored
TopMessages ==
  {g \in HandlerIds : hs[g].pc = "done" /\ hs[g].msg = g}

\* handleTopButton: preamble, then handleNavigation
handleTopButton(h, u, msg, act, m) ==
  /\ NextHandler(h)
  /\ msg \in TopMessages
  /\ LET d == Dispatch("topBtn", act, u, msg, m)
         ref == topSessions[msg]
         pre == Preamble(d, ref)
     IN  Settle(h, IF pre # Idle THEN pre ELSE Navigate(d, heap[ref].list))
  /\ UNCHANGED <<media, heap, recallSessions, deleteSessions, topSessions,
                 replyTargets, timers, now, posts>>

\* --------------------------------------------------------------- /get buttons
\* handleRecallButton up to its first await: preamble, then for send the
\* reply target is read and sendMedia is entered; otherwise handleNavigation
handleRecallButton(h, u, act, m) ==
  /\ NextHandler(h)
  /\ LET d == Dispatch("recallBtn", act, u, Absent, m)
         ref == recallSessions[u]
         pre == Preamble(d, ref)
     IN  Settle(h,
                  IF pre # Idle THEN pre
                  ELSE IF act = "send"
                       THEN [d EXCEPT !.pc = "deliver", !.arr = ref,
                                      !.idx = FindIndex(heap[ref].list, m),
                                      !.target = replyTargets[u]]
                       ELSE Navigate(d, heap[ref].list))
  /\ UNCHANGED <<media, heap, recallSessions, deleteSessions, topSessions,
                 replyTargets, timers, now, posts>>

\* what the destination answers to the first delivery attempt of sendMedia
Deliveries == {"badChannel", "file", "link", "notPosted", "e50001", "e40005", "eOther"}

\* a message posted by handler h: the payload (file) or its link, as a reply to
\* target or, with target Absent, as a fresh post
Post(h, form, target) ==
  [by |-> h, session |-> hs[h].arr, media |-> hs[h].media, form |-> form,
   target |-> target]

\* a sendMedia whose catch block retries with the link whatever the error was
sendMediaRetryAny(h, d) ==
  /\ hs[h].pc = "deliver"
  /\ posts' = IF d \in {"file", "link"} THEN posts \cup {Post(h, d, hs[h].target)}
              ELSE posts
  /\ Settle(h,
              CASE d = "badChannel" -> [hs[h] EXCEPT !.pc = "teardown", !.out = "CannotSend"]
                [] d \in {"file", "link", "notPosted"} -> [hs[h] EXCEPT !.pc = "increment"]
                [] OTHER -> [hs[h] EXCEPT !.pc = "fallback", !.err = d])
  /\ UNCHANGED <<media, heap, recallSessions, deleteSessions, topSessions,
                 replyTargets, timers, now>>

\* sendMedia from its entry to the answer of the delivery in its try block.
\*   badChannel  no text channel, or a DM: rendered, sendMedia returns
\*   file / link the attachment or the link was posted (reply or send)
\*   notPosted   the channel has no send / the target channel no messages
\*   e50001      the post was rejected: missing access
\*   e40005      the upload was rejected: request entity too large
\*   eOther      fetch or post failed otherwise
\* err is the error the catch block of sendMedia received.
sendMediaDeliver(h, d) ==
  /\ hs[h].pc = "deliver"
  /\ posts' = IF d \in {"file", "link"} THEN posts \cup {Post(h, d, hs[h].target)}
              ELSE posts
  /\ Settle(h,
              CASE d = "badChannel" -> [hs[h] EXCEPT !.pc = "teardown", !.out = "CannotSend"]
                [] d \in {"file", "link", "notPosted"} -> [hs[h] EXCEPT !.pc = "increment"]
                [] d = "e50001" -> [hs[h] EXCEPT !.pc = "teardown", !.err = d,
                                                 !.out = "NoPermission"]
                [] d = "e40005" -> [hs[h] EXCEPT !.pc = "fallback", !.err = d]
                [] OTHER -> [hs[h] EXCEPT !.pc = "teardown", !.err = d,
                                          !.out = "SendFailed"])
  /\ UNCHANGED <<media, heap, recallSessions, deleteSessions, topSessions,
                 replyTargets, timers, now>>

\* sendMedia, catch block, code 40005: channel.send of the link (never a
\* reply); a rejection here leaves sendMedia by exception
sendMediaFallback(h, d) ==
  /\ hs[h].pc = "fallback"
  /\ d \in {"link", "notPosted", "eOther"}
  /\ posts' = IF d = "link" THEN posts \cup {Post(h, "link", Absent)} ELSE posts
  /\ Settle(h,
              IF d = "eOther" THEN Done(hs[h], "Threw")
              ELSE [hs[h] EXCEPT !.pc = "increment", !.inCatch = TRUE])
  /\ UNCHANGED <<media, heap, recallSessions, deleteSessions, topSessions,
                 replyTargets, timers, now>>

\* MediaService.incrementRecallCount as awaited by sendMedia, in the try block
\* (a failure is caught and rendered) or in the catch block (a failure leaves
\* sendMedia by exception)
incrementRecallCount(h, dbOk) ==
  /\ hs[h].pc = "increment"
  /\ media' = IF dbOk
              THEN [media EXCEPT ![hs[h].media].recallCount = @ + 1]
              ELSE media
  /\ Settle(h,
              IF dbOk
              THEN [hs[h] EXCEPT !.pc = "teardown",
                                 !.out = IF hs[h].inCatch THEN "SentLink" ELSE "Sent"]
              ELSE IF hs[h].inCatch THEN Done(hs[h], "Threw")
              ELSE [hs[h] EXCEPT !.pc = "teardown", !.err = "eOther",
                                 !.out = "SendFailed"])
  /\ UNCHANGED <<heap, recallSessions, deleteSessions, topSessions,
                 replyTargets, timers, now, posts>>

\* handleRecallButton after sendMedia returned: recallSessions.delete(userId);
\* replyTargets.delete(userId)
recallTeardown(h) ==
  /\ hs[h].pc = "teardown"
  /\ recallSessions' = [recallSessions EXCEPT ![hs[h].user] = Absent]
  /\ replyTargets' = [replyTargets EXCEPT ![hs[h].user] = Absent]
  /\ Settle(h, Done(hs[h], hs[h].out))
  /\ UNCHANGED <<media, heap, deleteSessions, topSessions, timers, now, posts>>

\* ------------------------------------------------------------ the edit modal
\* the array handleEditTagsModalSubmit works on: the user's recall session
\* when there is one, else the top session of the message the modal came from
EditLookup(u, msg) ==
  IF recallSessions[u] # Absent THEN recallSessions[u]
  ELSE IF msg # Absent THEN topSessions[msg]
  ELSE Absent

\* handleEditTagsModalSubmit up to its first await.  msg is the /top message
\* whose Edit button opened the modal, Absent for the user's own /get carousel.
handleEditTagsModalSubmit(h, u, msg, m, text) ==
  /\ NextHandler(h)
  /\ msg = Absent \/ msg \in TopMessages
  /\ LET d == [Dispatch("editModal", "edit", u, msg, m) EXCEPT !.text = text]
         ref == EditLookup(u, msg)
         pre == Preamble(d, ref)
         newTags == TagStrings(normalizeTags(text))
     IN  Settle(h,
                  IF pre # Idle THEN pre
                  ELSE IF Len(newTags) = 0 THEN Done(d, "ValidationFailed")
                  ELSE [d EXCEPT !.pc = "editFind", !.arr = ref,
                                 !.idx = FindIndex(heap[ref].list, m),
                                 !.newTags = newTags])
  /\ UNCHANGED <<media, heap, recallSessions, deleteSessions, topSessions,
                 replyTargets, timers, now, posts>>

\* MediaService.updateTags: findFirst({ id, deletedAt: null }); null (or an
\* exception) makes the handler render the failure and return, and so does the
\* LAST_TAG error thrown for an empty tag list
updateTagsFind(h, dbOk) ==
  /\ hs[h].pc = "editFind"
  /\ Settle(h,
              IF ~dbOk \/ media[hs[h].media].deletedAt # Null
              THEN Done(hs[h], "UpdateFailed")
              ELSE IF Len(hs[h].newTags) = 0 THEN Done(hs[h], "ValidationFailed")
              ELSE [hs[h] EXCEPT !.pc = "editUpdate"])
  /\ UNCHANGED <<media, heap, recallSessions, deleteSessions, topSessions,
                 replyTargets, timers, now, posts>>

\* MediaService.updateTags: update({ where: { id }, data: { tags: finalTags } })
\* and the record it returns
updateTagsUpdate(h, dbOk) ==
  /\ hs[h].pc = "editUpdate"
  /\ media' = IF dbOk
              THEN [media EXCEPT ![hs[h].media].tags =
                      SubSeq(hs[h].newTags, 1, Min(Len(hs[h].newTags), MAX_TAGS_PER_ITEM))]
              ELSE media
  /\ Settle(h,
              IF dbOk
              THEN IF hs[h].op = "ocrEdit" THEN Done(hs[h], "Updated")
                   ELSE [hs[h] EXCEPT !.pc = "editCommit",
                                      !.results = <<Snapshot(media', hs[h].media)>>]
              ELSE Done(hs[h], "UpdateFailed"))
  /\ UNCHANGED <<heap, recallSessions, deleteSessions, topSessions,
                 replyTargets, timers, now, posts>>

\* an edit whose returned record shows in every list that holds the item, as
\* it would with sessions sharing their records
editCommitEverywhere(h) ==
  /\ hs[h].pc = "editCommit"
  /\ heap' = [a \in 1..Len(heap) |->
                [heap[a] EXCEPT !.list =
                   [i \in 1..Len(heap[a].list) |->
                      IF heap[a].list[i].id = hs[h].media THEN hs[h].results[1]
                      ELSE heap[a].list[i]]]]
  /\ Settle(h, Done(hs[h], "Updated"))
  /\ UNCHANGED <<media, recallSessions, deleteSessions, topSessions,
                 replyTargets, timers, now, posts>>

\* handleEditTagsModalSubmit after updateTags: results[mediaIndex] = updatedMedia
editCommit(h) ==
  /\ hs[h].pc = "editCommit"
  /\ heap' = [heap EXCEPT ![hs[h].arr].list =
                ReplaceAt(heap[hs[h].arr].list, hs[h].idx, hs[h].results[1])]
  /\ Settle(h, Done(hs[h], "Updated"))
  /\ UNCHANGED <<media, recallSessions, deleteSessions, topSessions,
                 replyTargets, timers, now, posts>>

\* ------------------------------------------------------------------ saving
\* prisma.media.create({ data }): a new row with the tags handed over, never
\* recalled, created now (the rows of Init were created before time 0)
storeMedia(table, u, tags) ==
  Append(table, [userId |-> u, tags |-> tags, recallCount |-> 0,
                 createdAt |-> NumMedia + 1 + now, deletedAt |-> Null,
                 mediaType |-> "image"])

\* k rows stored one after the other with the same tags
RECURSIVE storeMediaTimes(_, _, _, _)
storeMediaTimes(table, u, tags, k) ==
  IF k = 0 THEN table ELSE storeMedia(storeMediaTimes(table, u, tags, k - 1), u, tags)

\* handleStoreCommand (/save url tags): the URL is validated, the tags are
\* normalized, the row is created
handleStoreCommand(h, u, valid, text, dbOk) ==
  /\ NextHandler(h)
  /\ LET tags == TagStrings(normalizeTags(text))
         d == [Dispatch("save", "none", u, Absent, Absent) EXCEPT !.text = text]
         stored == valid /\ ~NoValidTags(tags) /\ dbOk
     IN  /\ media' = IF stored THEN storeMedia(media, u, tags) ELSE media
         /\ Settle(h, Done(d, IF ~valid THEN "Rejected"
                               ELSE IF NoValidTags(tags) THEN "ValidationFailed"
                               ELSE IF dbOk THEN "Saved" ELSE "SaveFailed"))
  /\ UNCHANGED <<heap, recallSessions, deleteSessions, topSessions,
                 replyTargets, timers, now, posts>>

\* handleModalSubmit of the Save to Stash context menu: the tags of the modal
\* are validated, then the selected item is stored, or every item of the
\* message one after the other.  items is the number of rows to create (0 when
\* the selection has expired or names no item); with dbOk false the last
\* create fails.
handleModalSubmit(h, u, text, items, dbOk) ==
  /\ NextHandler(h)
  /\ LET tags == TagStrings(normalizeTags(text))
         d == [Dispatch("saveModal", "none", u, Absent, Absent) EXCEPT !.text = text]
         created == IF NoValidTags(tags) THEN 0
                    ELSE IF dbOk THEN items ELSE Max(0, items - 1)
     IN  /\ media' = storeMediaTimes(media, u, tags, created)
         /\ Settle(h, Done(d, IF NoValidTags(tags) THEN "ValidationFailed"
                               ELSE IF items = 0 THEN "Expired"
                               ELSE IF dbOk THEN "Saved" ELSE "SaveFailed"))
  /\ UNCHANGED <<heap, recallSessions, deleteSessions, topSessions,
                 replyTargets, timers, now, posts>>

\* handleContextMenuCommand on a message with one media item: OCR suggests
\* tags; when it found some the item is saved with them at once, otherwise
\* (or when the save failed) the Add Tags button is shown
handleContextMenuCommand(h, u, rawText, dbOk) ==
  /\ NextHandler(h)
  /\ LET suggestedTags == TagStrings(filterToTags(rawText))
         d == [Dispatch("ocrSave", "none", u, Absent, Absent) EXCEPT !.text = rawText]
         stored == Len(suggestedTags) > 0 /\ dbOk
     IN  /\ media' = IF stored THEN storeMedia(media, u, suggestedTags) ELSE media
         /\ Settle(h, Done(d, IF stored THEN "Saved" ELSE "AddTags"))
  /\ UNCHANGED <<heap, recallSessions, deleteSessions, topSessions,
                 replyTargets, timers, now, posts>>

\* handleOcrEditModalSubmit up to its first await: the tags of the modal are
\* validated, then MediaService.updateTags is called on the saved item m (the
\* button that opens the modal carries the id of an item saved by OCR)
handleOcrEditModalSubmit(h, u, m, text) ==
  /\ NextHandler(h)
  /\ m \in DOMAIN media
  /\ LET tags == TagStrings(normalizeTags(text))
         d == [Dispatch("ocrEdit", "edit", u, Absent, m) EXCEPT !.text = text]
     IN  Settle(h, IF NoValidTags(tags) THEN Done(d, "ValidationFailed")
                   ELSE [d EXCEPT !.pc = "editFind", !.newTags = tags])
  /\ UNCHANGED <<media, heap, recallSessions, deleteSessions, topSessions,
                 replyTargets, timers, now, posts>>

\* --------------------------------------------------------------- the clock
\* a due setTimeout callback runs: sessions.delete(key).  All timers have the
\* same delay, so they run in the order they were armed.
TimerFire(t) ==
  /\ t \in timers /\ t.due <= now
  /\ \A s \in timers : s.seq >= t.seq
  /\ timers' = timers \ {t}
  /\ recallSessions' = IF t.store = "recall"
                       THEN [recallSessions EXCEPT ![t.key] = Absent] ELSE recallSessions
  /\ deleteSessions' = IF t.store = "delete"
                       THEN [deleteSessions EXCEPT ![t.key] = Absent] ELSE deleteSessions
  /\ topSessions' = IF t.store = "top"
                    THEN [topSessions EXCEPT ![t.key] = Absent] ELSE topSessions
  /\ UNCHANGED <<media, heap, replyTargets, now, posts, hs, last>>

\* time passes; a callback that is due runs before the clock moves on
Tick ==
  /\ now < MaxTime
  /\ \A t \in timers : t.due > now
  /\ now' = now + 1
  /\ UNCHANGED <<media, heap, recallSessions, deleteSessions, topSessions,
                 replyTargets, timers, posts, hs, last>>

\* ---------------------------------------------------------- specification
\* time and the eviction timers
Clock ==
  \/ \E t \in timers : TimerFire(t)
  \/ Tick

\* the /delete flow
DeleteFlow ==
  \/ \E h \in HandlerIds, u \in Users : CommandRejected(h, u, "delete")
  \/ \E h \in HandlerIds, u \in Users, q \in Queries, dbOk \in BOOLEAN :
       CommandSearch(h, u, "delete", q, dbOk)
  \/ \E h \in HandlerIds : DeleteCommandStore(h)
  \/ \E h \in HandlerIds, u \in Users, act \in Actions, m \in MediaIds :
       handleDeleteButton(h, u, act, m)
  \/ \E h \in HandlerIds, isAdmin \in BOOLEAN, dbOk \in BOOLEAN :
       deleteMediaFind(h, isAdmin, dbOk)
  \/ \E h \in HandlerIds, dbOk \in BOOLEAN : deleteMediaUpdate(h, dbOk)
  \/ \E h \in HandlerIds : deleteSplice(h)
  \/ \E h \in HandlerIds : deleteEvict(h)

\* the /get and Reply with Stash flows
RecallFlow ==
  \/ \E h \in HandlerIds, u \in Users, op \in {"get", "reply"} :
       CommandRejected(h, u, op)
  \/ \E h \in HandlerIds, u \in Users, op \in {"get", "reply"}, q \in Queries,
        dbOk \in BOOLEAN :
       CommandSearch(h, u, op, q, dbOk)
  \/ \E h \in HandlerIds : RecallCommandStore(h)
  \/ \E h \in HandlerIds : ReplyModalStore(h)
  \/ \E h \in HandlerIds, u \in Users, act \in Actions, m \in MediaIds :
       handleRecallButton(h, u, act, m)
  \/ \E h \in HandlerIds, d \in Deliveries : sendMediaDeliver(h, d)
  \/ \E h \in HandlerIds, d \in Deliveries : sendMediaFallback(h, d)
  \/ \E h \in HandlerIds, dbOk \in BOOLEAN : incrementRecallCount(h, dbOk)
  \/ \E h \in HandlerIds : recallTeardown(h)

\* the /top flow
TopFlow ==
  \/ \E h \in HandlerIds, u \in Users, dbOk \in BOOLEAN :
       CommandSearch(h, u, "top", <<>>, dbOk)
  \/ \E h \in HandlerIds : TopCommandStore(h)
  \/ \E h \in HandlerIds, u \in Users, msg \in HandlerIds, act \in Actions,
        m \in MediaIds :
       handleTopButton(h, u, msg, act, m)

\* the edit-tags modal
EditFlow ==
  \/ \E h \in HandlerIds, u \in Users, msg \in HandlerIds \cup {Absent},
        m \in MediaIds, text \in TagInputs :
       handleEditTagsModalSubmit(h, u, msg, m, text)
  \/ \E h \in HandlerIds, dbOk \in BOOLEAN : updateTagsFind(h, dbOk)
  \/ \E h \in HandlerIds, dbOk \in BOOLEAN : updateTagsUpdate(h, dbOk)
  \/ \E h \in HandlerIds : editCommit(h)

\* the /get command alone
GetCommand ==
  \/ \E h \in HandlerIds, u \in Users, q \in Queries, dbOk \in BOOLEAN :
       CommandSearch(h, u, "get", q, dbOk)
  \/ \E h \in HandlerIds : RecallCommandStore(h)

Next == DeleteFlow \/ RecallFlow \/ TopFlow \/ EditFlow

\* the whole bot while no eviction timer is due
Spec == Init /\ [][Next]_vars

\* every flow that creates, uses or ends a session, the searches being for
\* tag a and answered
SessionFlow ==
  \/ \E h \in HandlerIds, u \in Users, op \in {"get", "reply", "delete", "top"} :
       CommandSearch(h, u, op, <<"a">>, TRUE)
  \/ \E h \in HandlerIds : RecallCommandStore(h)
  \/ \E h \in HandlerIds : ReplyModalStore(h)
  \/ \E h \in HandlerIds : DeleteCommandStore(h)
  \/ \E h \in HandlerIds : TopCommandStore(h)
  \/ \E h \in HandlerIds, u \in Users, act \in Actions, m \in MediaIds :
       handleDeleteButton(h, u, act, m)
  \/ \E h \in HandlerIds, isAdmin \in BOOLEAN, dbOk \in BOOLEAN :
       deleteMediaFind(h, isAdmin, dbOk)
  \/ \E h \in HandlerIds, dbOk \in BOOLEAN : deleteMediaUpdate(h, dbOk)
  \/ \E h \in HandlerIds : deleteSplice(h)
  \/ \E h \in HandlerIds : deleteEvict(h)
  \/ \E h \in HandlerIds, u \in Users, act \in Actions, m \in MediaIds :
       handleRecallButton(h, u, act, m)
  \/ \E h \in HandlerIds, d \in Deliveries : sendMediaDeliver(h, d)
  \/ \E h \in HandlerIds, d \in Deliveries : sendMediaFallback(h, d)
  \/ \E h \in HandlerIds, dbOk \in BOOLEAN : incrementRecallCount(h, dbOk)
  \/ \E h \in HandlerIds : recallTeardown(h)
  \/ \E h \in HandlerIds, u \in Users, msg \in HandlerIds, act \in Actions,
        m \in MediaIds :
       handleTopButton(h, u, msg, act, m)
  \/ \E h \in HandlerIds, u \in Users, msg \in HandlerIds \cup {Absent},
        m \in MediaIds, text \in TagInputs :
       handleEditTagsModalSubmit(h, u, msg, m, text)
  \/ \E h \in HandlerIds, dbOk \in BOOLEAN : updateTagsFind(h, dbOk)
  \/ \E h \in HandlerIds, dbOk \in BOOLEAN : updateTagsUpdate(h, dbOk)
  \/ \E h \in HandlerIds : editCommit(h)

\* the whole bot, with time passing
SpecAll == Init /\ [][SessionFlow \/ Clock]_vars

\* the bot when only /delete is used, with time passing
SpecDelete == Init /\ [][DeleteFlow \/ Clock]_vars

\* the bot when only /get and Reply with Stash are used, with time passing
SpecRecall == Init /\ [][RecallFlow \/ Clock]_vars

\* an answered search for tag a by /get or Reply with Stash, and the Send
\* button of its carousel
SendFlow ==
  \/ \E h \in HandlerIds, u \in Users, op \in {"get", "reply"} :
       CommandSearch(h, u, op, <<"a">>, TRUE)
  \/ \E h \in HandlerIds : RecallCommandStore(h)
  \/ \E h \in HandlerIds : ReplyModalStore(h)
  \/ \E h \in HandlerIds, u \in Users, m \in MediaIds :
       handleRecallButton(h, u, "send", m)
  \/ \E h \in HandlerIds, d \in Deliveries : sendMediaDeliver(h, d)
  \/ \E h \in HandlerIds, d \in Deliveries : sendMediaFallback(h, d)
  \/ \E h \in HandlerIds, dbOk \in BOOLEAN : incrementRecallCount(h, dbOk)
  \/ \E h \in HandlerIds : recallTeardown(h)

\* the bot when searches and the Send button are used, no timer being due
SpecSend == Init /\ [][SendFlow]_vars

\* the bot when /get, /top and the edit modal are used, with time passing
SpecEdit == Init /\ [][GetCommand \/ TopFlow \/ EditFlow \/ Clock]_vars

\* the bot when /delete, /get and the edit modal are used, no timer being due
SpecCommit == Init /\ [][DeleteFlow \/ GetCommand \/ EditFlow]_vars

\* saving by command, context menu and OCR, and editing the tags of saved items
SaveFlow ==
  \/ \E h \in HandlerIds, u \in Users, valid \in BOOLEAN, text \in SaveInputs,
        dbOk \in BOOLEAN :
       handleStoreCommand(h, u, valid, text, dbOk)
  \/ \E h \in HandlerIds, u \in Users, text \in SaveInputs, items \in 0..2,
        dbOk \in BOOLEAN :
       handleModalSubmit(h, u, text, items, dbOk)
  \/ \E h \in HandlerIds, u \in Users, rawText \in OcrTexts, dbOk \in BOOLEAN :
       handleContextMenuCommand(h, u, rawText, dbOk)
  \/ \E h \in HandlerIds, u \in Users, text \in SaveInputs :
       handleOcrEditModalSubmit(h, u, NumMedia + 1, text)
  \/ \E h \in HandlerIds, u \in Users, m \in MediaIds, text \in SaveInputs :
       handleEditTagsModalSubmit(h, u, Absent, m, text)
  \/ \E h \in HandlerIds, dbOk \in BOOLEAN : updateTagsFind(h, dbOk)
  \/ \E h \in HandlerIds, dbOk \in BOOLEAN : updateTagsUpdate(h, dbOk)
  \/ \E h \in HandlerIds : editCommit(h)

\* the bot when media are saved, searched with /get and their tags edited
SpecSave == Init /\ [][SaveFlow \/ GetCommand]_vars

\* the recall counts and creation times of the records searched
RecallCounts == {0, 1}
CreationTimes == {1, 2}

\* TagService.normalizeTags called on text: it returns the tags
normalizeTagsCall(h, text) ==
  /\ NextHandler(h)
  /\ Settle(h, [Done([Idle EXCEPT !.op = "normalizeTags", !.text = text], "Returned")
                  EXCEPT !.newTags = normalizeTags(text)])
  /\ UNCHANGED <<media, heap, recallSessions, deleteSessions, topSessions,
                 replyTargets, timers, now, posts>>

\* ------------------------------------------------------- the button token
\* the carousel modes, and the actions createNavigationButtons offers in each
Modes == {"recall", "delete", "top"}
Offered(mode) ==
  {"prev", "next"} \cup (IF mode = "recall" THEN {"send"}
                         ELSE IF mode = "delete" THEN {"confirm"} ELSE {})

\* the characters of the mode and action names
Spelled(word) ==
  CASE word = "recall" -> <<"r", "e", "c", "a", "l", "l">>
    [] word = "delete" -> <<"d", "e", "l", "e", "t", "e">>
    [] word = "top" -> <<"t", "o", "p">>
    [] word = "prev" -> <<"p", "r", "e", "v">>
    [] word = "next" -> <<"n", "e", "x", "t">>
    [] word = "send" -> <<"s", "e", "n", "d">>
    [] word = "confirm" -> <<"c", "o", "n", "f", "i", "r", "m">>

\* MediaRecord.id is a string; the ids of the model are the texts of up to
\* MaxTextLen characters over a letter, a digit and the underscore
IdChars == {"a", "1", "_"}
ItemIds == UNION {[1..n -> IdChars] : n \in 1..MaxTextLen}

\* setCustomId(`${mode}_${action}_${mediaId}`)
customId(mode, action, mediaId) ==
  Spelled(mode) \o <<"_">> \o Spelled(action) \o <<"_">> \o mediaId

\* String.prototype.split('_'): the pieces between the underscores, the empty
\* ones included
RECURSIVE JsSplit(_)
JsSplit(text) ==
  IF \A i \in 1..Len(text) : text[i] # "_" THEN <<text>>
  ELSE LET at == CHOOSE i \in 1..Len(text) :
                   text[i] = "_" /\ \A j \in 1..(i - 1) : text[j] # "_"
       IN  <<SubSeq(text, 1, at - 1)>> \o JsSplit(SubSeq(text, at + 1, Len(text)))

\* const [mode, action, mediaId] = interaction.customId.split('_'): the first
\* three pieces, a missing one (undefined) being rendered as the empty text
ParseCustomId(token) ==
  LET parts == JsSplit(token)
  IN  [i \in 1..3 |-> IF i <= Len(parts) THEN parts[i] ELSE <<>>]

\* one cycle of a button: createNavigationButtons builds the token of (mode,
\* action, mediaId), the dispatcher and the handler split the token they are
\* handed.  query is the triple built, newTags the triple decoded.
buttonCycle(h, mode, action, mediaId) ==
  /\ NextHandler(h)
  /\ action \in Offered(mode)
  /\ LET token == customId(mode, action, mediaId)
     IN  Settle(h, [Done([Idle EXCEPT !.op = "button", !.text = token,
                                      !.query = <<Spelled(mode), Spelled(action), mediaId>>],
                         "Returned")
                      EXCEPT !.newTags = ParseCustomId(token)])
  /\ UNCHANGED <<media, heap, recallSessions, deleteSessions, topSessions,
                 replyTargets, timers, now, posts>>

\* one button cycle, for any mode, action offered and item id
SpecToken ==
  Init /\ [][\E mode \in Modes, action \in Actions, mediaId \in ItemIds :
               buttonCycle(1, mode, action, mediaId)]_vars

\* one call of normalizeTags, on any text of Texts
SpecTags == Init /\ [][\E text \in Texts : normalizeTagsCall(1, text)]_vars

\* the tables of live records whose recall counts and creation times may tie
SearchTables ==
  {[m \in MediaIds |->
      [userId |-> InitOwner(m), tags |-> InitTags(m), recallCount |-> rc[m],
       createdAt |-> ca[m], deletedAt |-> Null, mediaType |-> InitType(m)]] :
     rc \in [MediaIds -> RecallCounts], ca \in [MediaIds -> CreationTimes]}

InitSearch ==
  /\ media \in SearchTables
  /\ InitSessions

\* /get over the search queries
SearchFlow ==
  \/ \E h \in HandlerIds, u \in Users, q \in SearchQueries, dbOk \in BOOLEAN :
       CommandSearch(h, u, "get", q, dbOk)
  \/ \E h \in HandlerIds : RecallCommandStore(h)

\* handleTopCommand up to its first await: getTopMedia with the type option
handleTopCommand(h, u, typeFilter, dbOk) ==
  /\ NextHandler(h)
  /\ \E results \in getTopMedia(media, typeFilter) :
       LET d == [Dispatch("top", "none", u, Absent, Absent) EXCEPT
                   !.typeFilter = typeFilter]
       IN  Settle(h,
                    IF ~dbOk THEN Done(d, "SearchFailed")
                    ELSE IF results = <<>> THEN Done(d, "NoResults")
                    ELSE [d EXCEPT !.pc = "store", !.results = results, !.msg = h])
  /\ UNCHANGED <<media, heap, recallSessions, deleteSessions, topSessions,
                 replyTargets, timers, now, posts>>

\* /top with and without a type filter, the Repository answering
TopSearchFlow ==
  \/ \E h \in HandlerIds, u \in Users, typeFilter \in TypeFilters :
       handleTopCommand(h, u, typeFilter, TRUE)
  \/ \E h \in HandlerIds : TopCommandStore(h)

\* the bot when only /top is used, over any table of live records
SpecTop == InitSearch /\ [][TopSearchFlow]_vars

\* the bot when only /get is used, over any table of live records
SpecSearch == InitSearch /\ [][SearchFlow]_vars

\* ------------------------------------------------------------- properties
\* the three session maps and the arrays they hold
sessionState == <<heap, recallSessions, deleteSessions, topSessions>>

\* list without the items whose id is mediaId
RemoveId(list, mediaId) == SelectSeq(list, LAMBDA x : x.id # mediaId)

\* in this step handler h is dispatched
Dispatched(h) == hs[h].pc = "idle" /\ hs'[h].pc # "idle"

\* in this step handler h returns (or throws)
Returns(h) == hs[h].pc # "done" /\ hs'[h].pc = "done"

\* the locals of handler h after this step, also when it has returned in it
After(h) == IF hs'[h].pc = "done" THEN last'.r ELSE hs'[h]

\* C1: each confirmDelete whose Repository delete succeeded removes from the
\* session list exactly the item whose id its token carried, and no other
\* item, whatever other confirmDelete actions ran in between.
C1_ConfirmRemovesItsItem ==
  [][\A h \in HandlerIds :
       (hs[h].pc = "splice" /\ hs'[h].pc # "splice")
         => heap'[hs[h].arr].list = RemoveId(heap[hs[h].arr].list, hs[h].media)]_vars

\* C2: an eviction timer never evicts a session stored less than the TTL ago:
\* a timer armed for an earlier session under the key leaves the later one.
C2_TimerSparesLaterSession ==
  [][\A u \in Users :
       (timers' # timers /\ deleteSessions[u] # Absent /\ deleteSessions'[u] = Absent)
         => now >= heap[deleteSessions[u]].at + TicksPerTTL]_vars

\* the arrays now held by some session map
Held ==
  {recallSessions[u] : u \in Users} \cup {deleteSessions[u] : u \in Users}
    \cup {topSessions[m] : m \in HandlerIds}

\* C3: a session stored at time T is absent from its store once T + 15 minutes
\* has passed, whichever flow stored it.
C3_SessionGoneAfterTTL ==
  \A a \in Held \ {Absent} : now <= heap[a].at + TicksPerTTL

\* C4: at most one delivery succeeds for any one recall session.
C4_SingleDelivery ==
  \A p, q \in posts : p.session = q.session => p = q

SendPcs == {"deliver", "fallback", "increment", "teardown"}

\* C5: when a send action whose delivery succeeded completes, the session key
\* is no longer resolvable, also when the recall-count increment failed.
C5_DeliveredSendEndsSession ==
  [][\A h \in HandlerIds :
       (hs[h].pc \in SendPcs /\ Returns(h) /\ \E p \in posts : p.by = h)
         => recallSessions'[hs[h].user] = Absent]_vars

\* C6: when a send action that passed the preamble finishes, the session is
\* absent from the store, for every delivery outcome.
C6_SendAlwaysTearsDown ==
  [][\A h \in HandlerIds :
       (hs[h].pc \in SendPcs /\ Returns(h))
         => recallSessions'[hs[h].user] = Absent]_vars

\* C7: no session key maps to an empty list, in any reachable state.
C7_NoEmptySession ==
  \A a \in Held \ {Absent} : heap[a].list # <<>>

\* the latest array stored under key u of the delete sessions, Absent if none
LatestDelete(u) ==
  LET mine == {a \in 1..Len(heap) : heap[a].store = "delete" /\ heap[a].key = u}
  IN  IF mine = {} THEN Absent ELSE CHOOSE a \in mine : \A b \in mine : b <= a

\* a confirmDelete removed the last item of the latest delete session of u and
\* no search has stored a session under the key since
Exhausted(u) ==
  LatestDelete(u) # Absent /\ heap[LatestDelete(u)].list = <<>>

\* C8: after a confirmDelete removed the last remaining item of a delete
\* session, every later action on the key yields Expired until a new search
\* stores a session under it.
C8_ExhaustedMeansExpired ==
  [][\A h \in HandlerIds :
       (Dispatched(h) /\ After(h).op = "deleteBtn" /\ Exhausted(After(h).user))
         => (hs'[h].pc = "done" /\ last'.r.out = "Expired")]_vars

\* the positions of a confirmDelete or editTags handler up to the answer of
\* its Repository call
BeforeCommit == {"idle", "deleteFind", "deleteUpdate", "editFind", "editUpdate"}

\* the outcomes rendered when the Repository call returned failure or raised
RepositoryFailures == {"Denied", "Threw", "UpdateFailed"}

\* C9: a confirmDelete or editTags whose Repository call returns failure or
\* raises leaves the session list as it was before the action: no step of the
\* action up to the Repository's answer changes a session, and the failure
\* ends the action there.
C9_FailureLeavesSession ==
  [][\A h \in HandlerIds :
       (hs'[h] # hs[h] /\ After(h).op \in {"deleteBtn", "editModal"})
         => /\ hs[h].pc \in BeforeCommit => UNCHANGED sessionState
            /\ (Returns(h) /\ last'.r.out \in RepositoryFailures)
                 => hs[h].pc \in BeforeCommit]_vars

\* a confirmDelete was refused by the Repository while its session is held
C9_Witness ==
  /\ last.r.op = "deleteBtn" /\ last.r.out = "Denied"
  /\ deleteSessions[last.r.user] = last.r.arr
  /\ FindIndex(heap[last.r.arr].list, last.r.media) # Absent

\* an editTags was refused by the Repository while its session is held
C9_WitnessEdit ==
  /\ last.r.op = "editModal" /\ last.r.out = "UpdateFailed"
  /\ last.r.arr \in Held
  /\ FindIndex(heap[last.r.arr].list, last.r.media) # Absent

\* the array stored under the key of the action dispatched as rec: the user's
\* key for recall and delete, the message's key for top
KeyRef(rec) ==
  CASE rec.op = "deleteBtn" -> deleteSessions[rec.user]
    [] rec.op = "recallBtn" -> recallSessions[rec.user]
    [] rec.op = "topBtn" -> topSessions[rec.msg]
    [] rec.op = "editModal" ->
         IF rec.msg = Absent THEN recallSessions[rec.user] ELSE topSessions[rec.msg]
    [] OTHER -> Absent

ButtonOps == {"deleteBtn", "recallBtn", "topBtn", "editModal"}

\* C10: every action on a key without a session yields Expired, and every
\* action whose item is not in the session's list yields ItemMissing; neither
\* changes any state.
C10_Preamble ==
  [][\A h \in HandlerIds :
       (Dispatched(h) /\ After(h).op \in ButtonOps)
         => LET ref == KeyRef(After(h))
            IN  /\ ref = Absent
                     => (hs'[h].pc = "done" /\ last'.r.out = "Expired")
                /\ (ref # Absent /\ FindIndex(heap[ref].list, After(h).media) = Absent)
                     => (hs'[h].pc = "done" /\ last'.r.out = "ItemMissing")
                /\ (ref = Absent \/ FindIndex(heap[ref].list, After(h).media) = Absent)
                     => UNCHANGED <<media, sessionState, replyTargets, posts>>]_vars

\* the ids of the records in list
Ids(list) == {list[i].id : i \in 1..Len(list)}

\* C11: a record tombstoned by a successful delete never appears in the
\* result of a later searchByTags or getTopMedia call.
C11_TombstonedNeverFound ==
  [][\A h \in HandlerIds :
       (Dispatched(h) /\ hs'[h].pc = "store")
         => \A m \in Ids(hs'[h].results) : media[m].deletedAt = Null]_vars

\* the outcomes of a confirmDelete that render an error
DeleteErrors == {"Denied", "Threw"}

\* C12: a confirmDelete tombstones the record only if the acting user owns it
\* or holds the privileged permission; when neither holds, the record is not
\* tombstoned, an error is rendered and the session list is unchanged.
C12_DeleteNeedsOwnerOrAdmin ==
  [][/\ \A m \in MediaIds :
          media'[m].deletedAt # media[m].deletedAt
            => \E h \in HandlerIds :
                 /\ hs[h].pc = "deleteUpdate" /\ hs'[h].pc = "splice"
                 /\ hs[h].media = m
                 /\ (media[m].userId = hs[h].user \/ hs[h].admin)
     /\ \A h \in HandlerIds :
          (/\ hs[h].pc = "deleteFind" /\ hs'[h] # hs[h]
           /\ media[hs[h].media].userId # hs[h].user /\ ~After(h).admin)
            => /\ Returns(h) /\ last'.r.out \in DeleteErrors
               /\ UNCHANGED <<media, sessionState>>]_vars

\* a confirmDelete on a live record of another member, without the privileged
\* permission, was denied and the record is still live and listed
C12_Witness ==
  /\ last.r.op = "deleteBtn" /\ last.r.out = "Denied" /\ ~last.r.admin
  /\ media[last.r.media].userId # last.r.user
  /\ media[last.r.media].deletedAt = Null
  /\ FindIndex(heap[last.r.arr].list, last.r.media) # Absent

\* the positions of a confirmDelete between its dispatch and its return
DeletePcs == {"deleteFind", "deleteUpdate", "splice", "evict"}

\* handler h took this step
Steps(h) == hs'[h] # hs[h]

C14_NavigationClamps ==
  [][\A h \in HandlerIds :
       (/\ Dispatched(h) /\ After(h).op \in {"deleteBtn", "recallBtn", "topBtn"}
        /\ After(h).act \in {"prev", "next"}
        /\ KeyRef(After(h)) # Absent
        /\ FindIndex(heap[KeyRef(After(h))].list, After(h).media) # Absent)
         => LET list == heap[KeyRef(After(h))].list
                i == FindIndex(list, After(h).media)
                n == Len(list)
            IN  /\ Returns(h) /\ last'.r.out = "Shown"
                /\ After(h).act = "prev"
                     => last'.r.shown = (IF i = 1 THEN list[1] ELSE list[i - 1]).id
                /\ After(h).act = "next"
                     => last'.r.shown = (IF i = n THEN list[n] ELSE list[i + 1]).id
                /\ UNCHANGED <<media, sessionState>>]_vars

\* next was pressed on the last item of a list of several and rendered it again
C14_Witness ==
  /\ last.r.op \in {"deleteBtn", "recallBtn", "topBtn"} /\ last.r.act = "next"
  /\ last.r.out = "Shown" /\ last.r.shown = last.r.media
  /\ \E a \in Held \ {Absent} :
       /\ Len(heap[a].list) > 1
       /\ heap[a].list[Len(heap[a].list)].id = last.r.media

\* prev was pressed on a later item of a top carousel and rendered the one before
C14_WitnessPrev ==
  /\ last.r.op = "topBtn" /\ last.r.act = "prev" /\ last.r.out = "Shown"
  /\ last.r.shown # last.r.media

\* text holds no letter, digit or underscore
NoTagChar(text) == \A i \in 1..Len(text) : text[i] \notin TagChars \cup {"A"}

\* C15: an editTags submission whose text normalizes to an empty tag list is
\* rejected with the cannot-remove-all-tags error (when the handler found the
\* session and the item), and neither the stored record nor any session entry
\* changes.
C15_EmptyEditRejected ==
  [][\A h \in HandlerIds :
       (/\ Dispatched(h) /\ After(h).op = "editModal"
        /\ (normalizeTags(After(h).text) = <<>> \/ NoTagChar(After(h).text)))
         => LET ref == EditLookup(After(h).user, After(h).msg)
            IN  /\ Returns(h)
                /\ last'.r.out \in {"Expired", "ItemMissing", "ValidationFailed"}
                /\ (ref # Absent /\ FindIndex(heap[ref].list, After(h).media) # Absent)
                     => last'.r.out = "ValidationFailed"
                /\ UNCHANGED <<media, sessionState>>]_vars

\* a submission of punctuation and separators only was rejected as removing
\* all tags
C15_Witness ==
  /\ last.r.op = "editModal" /\ last.r.out = "ValidationFailed"
  /\ last.r.text # <<>>

\* number of tags the query q and the record m have in common
Overlap(q, m) == Cardinality(Range(q) \cap Range(media[m].tags))

\* the sort key of record m under query q
RankKey(q, m) == <<Overlap(q, m), media[m].recallCount, media[m].createdAt>>

\* key k is lexicographically greater than or equal to key l
LexGeq(k, l) ==
  \/ k[1] > l[1]
  \/ k[1] = l[1] /\ k[2] > l[2]
  \/ k[1] = l[1] /\ k[2] = l[2] /\ k[3] >= l[3]

\* in this step handler h ran searchByTags and got results back
Searched(h) ==
  /\ Dispatched(h) /\ After(h).op = "get"
  /\ After(h).out # "SearchFailed"

\* what the search of handler h returned in this step
Found(h) == After(h).results

\* C16: in the output of searchByTags, a result placed before another has a
\* triple (score, recallCount, createdAt) lexicographically greater than or
\* equal to the other's, score being the number of tags the query and the
\* record share.
C16_RankedByKey ==
  [][\A h \in HandlerIds : Searched(h) =>
       \A i, j \in 1..Len(Found(h)) : i < j =>
         LexGeq(RankKey(After(h).query, Found(h)[i].id),
                RankKey(After(h).query, Found(h)[j].id))]_vars

\* a search returned two records of equal score, the one recalled more often
\* first although it is the older one
C16_Witness ==
  \E h \in HandlerIds :
    /\ hs[h].pc = "store" /\ hs[h].op = "get" /\ Len(hs[h].results) = 2
    /\ LET x == hs[h].results[1].id
           y == hs[h].results[2].id
       IN  /\ Overlap(hs[h].query, x) = Overlap(hs[h].query, y)
           /\ media[x].recallCount > media[y].recallCount
           /\ media[x].createdAt < media[y].createdAt

C18_SearchDeterministic ==
  \A g, h \in HandlerIds :
    (/\ hs[g].pc = "store" /\ hs[g].op = "get"
     /\ hs[h].pc = "store" /\ hs[h].op = "get"
     /\ hs[g].query = hs[h].query)
      => hs[g].results = hs[h].results

\* the text and the tags of the latest normalizeTags call
Normalized == last.r.op = "normalizeTags"
Input == last.r.text
Output == last.r.newTags

\* C19: for every input text, normalizing the space-joined output of
\* normalizeTags yields the same tag sequence as the first normalization.
C19_NormalizeIdempotent ==
  Normalized => normalizeTags(Join(Output, " ")) = Output

\* a text that is not its own normal form was normalized to two tags or more
C19_Witness ==
  /\ Normalized /\ Len(Output) >= 2
  /\ Join(Output, " ") # Input

\* the tokens of text: its maximal runs of characters that are no separators
RECURSIVE Tokens(_)
Tokens(text) ==
  IF text = <<>> THEN <<>>
  ELSE IF Head(text) \in Separators THEN Tokens(Tail(text))
  ELSE LET n == CHOOSE k \in 1..Len(text) :
                  /\ \A i \in 1..k : text[i] \notin Separators
                  /\ k = Len(text) \/ text[k + 1] \in Separators
       IN  <<SubSeq(text, 1, n)>> \o Tokens(SubSeq(text, n + 1, Len(text)))

\* the tag a token stands for: its letters, digits and underscores, in lower case
TagOf(token) ==
  LET lower(c) == IF c = "A" THEN "a" ELSE c
      kept == SelectSeq(token, LAMBDA c : lower(c) \in TagChars)
  IN  [i \in 1..Len(kept) |-> lower(kept[i])]

\* the tags the tokens of text stand for, the empty and the too long ones left out
Candidates(text) ==
  LET tags == [i \in 1..Len(Tokens(text)) |-> TagOf(Tokens(text)[i])]
  IN  SelectSeq(tags, LAMBDA t : 0 < Len(t) /\ Len(t) <= MAX_TAG_LENGTH)

\* position of the first occurrence of tag t in the sequence tags
FirstAt(tags, t) == CHOOSE i \in 1..Len(tags) :
                      tags[i] = t /\ \A j \in 1..(i - 1) : tags[j] # t

C20_WitnessLong ==
  /\ Normalized /\ Output = <<>>
  /\ Len(Input) > MAX_TAG_LENGTH /\ Range(Input) = {"a"}

SessionsOf(op, recall, delete) == IF op = "delete" THEN delete ELSE recall

\* in this step the search of handler g stores its results as the session
Stores(g) ==
  /\ hs[g].pc = "store" /\ hs'[g].pc = "done"
  /\ hs[g].op \in {"get", "delete"}

\* the latest response is that of a search of the same kind by the same user
\* that was issued after the search of handler g and has stored its session,
\* which is still there
LaterSearchStored(g) ==
  /\ last.by > g /\ last.r.op = hs[g].op /\ last.r.user = hs[g].user
  /\ last.r.out = "Shown"
  /\ SessionsOf(hs[g].op, recallSessions, deleteSessions)[hs[g].user] # Absent

\* C22: last search wins: when the same user issues two searches of the same
\* kind (/get or /delete) that both yield results, then once both have
\* completed the session under the user's key holds the results of the search
\* issued last; so when the search issued first is the second to complete, the
\* session still holds the results the later search stored.
C22_LastSearchWins ==
  [][\A g \in HandlerIds : (Stores(g) /\ LaterSearchStored(g)) =>
       LET u == hs[g].user
           before == SessionsOf(hs[g].op, recallSessions, deleteSessions)[u]
           after == SessionsOf(hs[g].op, recallSessions', deleteSessions')[u]
       IN  heap'[after].list = heap[before].list]_vars

\* the positions of an editTags between its dispatch and its return
EditPcs == {"editFind", "editUpdate", "editCommit"}

\* C23: after a successful editTags on item X of a session, no other action
\* being in flight, the session entry with X's id, at the same index, is the
\* record returned by the Repository with the normalized new tags, and every
\* other entry, the list length and the list order are unchanged.  While an
\* editTags is in flight its list changes only in steps of actions, so with no
\* other action in flight the index it holds is that of its item.
C23_EditReplacesInPlace ==
  [][\A h \in HandlerIds :
       LET old == heap[hs[h].arr].list
           new == heap'[hs[h].arr].list
           i == hs[h].idx
       IN  /\ (hs[h].pc \in EditPcs /\ hs[h].op = "editModal" /\ new # old)
                => \E g \in HandlerIds : Steps(g) /\ hs[g].pc \notin {"idle", "done"}
           /\ (/\ hs[h].pc = "editCommit" /\ Steps(h)
               /\ i = FindIndex(old, hs[h].media))
                => /\ Returns(h) /\ last'.r.out = "Updated"
                   /\ Len(new) = Len(old)
                   /\ \A k \in 1..Len(old) : k # i => new[k] = old[k]
                   /\ new[i] = hs[h].results[1]
                   /\ new[i].id = hs[h].media
                   /\ new[i].tags = TagStrings(normalizeTags(hs[h].text))
                   /\ i = FindIndex(new, hs[h].media)]_vars

\* an editTags replaced the second entry of a list of two with new tags while
\* no other action was in flight
C23_Witness ==
  /\ last.r.op = "editModal" /\ last.r.out = "Updated"
  /\ \A g \in HandlerIds : hs[g].pc \in {"idle", "done"}
  /\ Len(heap[last.r.arr].list) = 2
  /\ heap[last.r.arr].list[2].id = last.r.media
  /\ heap[last.r.arr].list[2].tags = TagStrings(normalizeTags(last.r.text))
  /\ heap[last.r.arr].list[2].tags # InitTags(last.r.media)

\* handler h has posted the payload or its link to the destination
Delivered(h) == \E p \in posts : p.by = h

\* in this step the incrementRecallCount awaited by handler h fails
IncrementFails(h) ==
  /\ hs[h].pc = "increment" /\ hs'[h].pc # "increment"
  /\ media' = media

\* C24: when delivery of the payload succeeds and the incrementRecallCount
\* call that follows fails, the send is still reported to the user as sent
\* and no further delivery attempt is made.
C24_IncrementFailureStillSent ==
  [][\A h \in HandlerIds : (Delivered(h) /\ IncrementFails(h)) =>
       /\ After(h).out \in {"Sent", "SentLink"}
       /\ posts' = posts]_vars

\* the messages handler h has posted, before and after this step
PostsBy(h) == {p \in posts : p.by = h}
PostsByAfter(h) == {p \in posts' : p.by = h}

\* C25: two-tier fallback: when the full-payload delivery is rejected as too
\* large (code 40005), exactly one further delivery attempt is made, carrying
\* the link and not the payload, and when it succeeds the recall count is
\* incremented and success is reported as soon as the increment is through;
\* when the delivery fails for any other reason nothing is posted and no
\* further attempt is made.  Messages are posted by the first attempt and by
\* the fallback attempt only.
C25_TwoTierFallback ==
  [][\A h \in HandlerIds :
       /\ PostsByAfter(h) # PostsBy(h) => hs[h].pc \in {"deliver", "fallback"}
       /\ (hs'[h].pc = "fallback" /\ Steps(h)) =>
            /\ hs[h].pc = "deliver" /\ hs'[h].err = "e40005"
            /\ posts' = posts /\ media' = media
       /\ (hs[h].pc = "deliver" /\ hs'[h].err \notin {"none", "e40005"}) =>
            /\ hs'[h].pc = "teardown" /\ hs'[h].out \in {"NoPermission", "SendFailed"}
            /\ PostsByAfter(h) = {} /\ media' = media
       /\ (hs[h].pc = "deliver" /\ hs'[h].err = "e40005") => hs'[h].pc = "fallback"
       /\ (hs[h].pc = "fallback" /\ Steps(h)) =>
            /\ PostsByAfter(h) \in {{}, {Post(h, "link", Absent)}}
            /\ PostsByAfter(h) # {} => hs'[h].pc = "increment" /\ hs'[h].inCatch
            /\ hs'[h].pc \in {"increment", "done"}
            /\ media' = media
       /\ (hs[h].pc = "increment" /\ hs[h].inCatch /\ Steps(h) /\ media' # media) =>
            /\ media' = [media EXCEPT ![hs[h].media].recallCount = @ + 1]
            /\ hs'[h].pc = "teardown" /\ hs'[h].out = "SentLink"
       /\ (hs[h].pc = "teardown" /\ Steps(h)) =>
            /\ Returns(h) /\ last'.r.out = hs[h].out
            /\ posts' = posts /\ media' = media]_vars

\* a send whose upload was rejected as too large has posted the link, once,
\* incremented the recall count and reported the send as sent by link
C25_Witness ==
  /\ last.r.op = "recallBtn" /\ last.r.out = "SentLink"
  /\ {p \in posts : p.by = last.by} = {[by |-> last.by, session |-> last.r.arr,
                                        media |-> last.r.media, form |-> "link",
                                        target |-> Absent]}
  /\ media[last.r.media].recallCount = 1

\* the button tokens a mode does not act on: confirm outside delete mode, send
\* outside recall mode
Foreign(rec) ==
  \/ rec.act = "confirm" /\ rec.op \in {"recallBtn", "topBtn"}
  \/ rec.act = "send" /\ rec.op \in {"deleteBtn", "topBtn"}

\* C26: mutating actions are mode-gated: a confirm token handled in recall or
\* top mode, and a send token handled in delete or top mode, is answered at
\* once (Expired, ItemMissing or nothing at all) and causes no Repository
\* mutation, no delivery and no session change.
C26_ModeGated ==
  [][\A h \in HandlerIds : (Dispatched(h) /\ Foreign(After(h))) =>
       /\ Returns(h)
       /\ last'.r.out \in {"Expired", "ItemMissing", "Ignored"}
       /\ UNCHANGED <<media, posts, heap, recallSessions, deleteSessions,
                      topSessions, replyTargets, timers>>]_vars

\* a send token was handled in delete mode, for an item of the user's delete
\* session, and ignored
C26_Witness ==
  /\ last.r.op = "deleteBtn" /\ last.r.act = "send" /\ last.r.out = "Ignored"
  /\ deleteSessions[last.r.user] # Absent
  /\ FindIndex(heap[deleteSessions[last.r.user]].list, last.r.media) # Absent

\* C27: an editTags submission for an item of a top carousel is validated
\* against, and committed to, the top session keyed by that carousel's
\* message id, also when the acting user has a recall session of their own:
\* without that top session it is answered Expired, without the item in it
\* ItemMissing, and otherwise the list it goes on to edit is that session's.
C27_TopEditUsesTopSession ==
  [][\A h \in HandlerIds :
       (Dispatched(h) /\ After(h).op = "editModal" /\ After(h).msg # Absent) =>
         LET ref == topSessions[After(h).msg]
         IN  /\ ref = Absent => After(h).out = "Expired"
             /\ (ref # Absent /\ FindIndex(heap[ref].list, After(h).media) = Absent)
                  => After(h).out = "ItemMissing"
             /\ hs'[h].pc = "editFind" => hs'[h].arr = ref]_vars

\* the key getTopMedia orders by puts record x of the table not after record y
TopKeyGeq(x, y) ==
  \/ media[x].recallCount > media[y].recallCount
  \/ /\ media[x].recallCount = media[y].recallCount
     /\ media[x].createdAt >= media[y].createdAt

\* C28: getTopMedia returns every fetched candidate of the guild (those of the
\* media type when a filter is given), each once, whatever its tags, ordered
\* by recallCount descending and, on equal recallCount, by createdAt
\* descending; /top reports no results only when there is no such candidate.
C28_TopByPopularity ==
  [][\A h \in HandlerIds :
       (Dispatched(h) /\ After(h).op = "top" /\ After(h).out # "SearchFailed") =>
         LET res == hs'[h].results
             sel == {m \in DOMAIN media :
                       After(h).typeFilter \in {"none", media[m].mediaType}}
         IN  /\ {res[i].id : i \in 1..Len(res)} = sel
             /\ Len(res) = Cardinality(sel)
             /\ \A i \in 1..Len(res) : res[i] = Snapshot(media, res[i].id)
             /\ \A i, j \in 1..Len(res) : i < j => TopKeyGeq(res[i].id, res[j].id)
             /\ (After(h).out = "NoResults") = (sel = {})]_vars

\* /top with a type filter has shown its carousel, and /top without one has
\* returned the record recalled more often before the one created later
C28_Witness ==
  /\ last.r.op = "top" /\ last.r.typeFilter = "gif" /\ last.r.out = "Shown"
  /\ \E h \in HandlerIds :
       /\ hs[h].pc = "store" /\ hs[h].op = "top" /\ hs[h].typeFilter = "none"
       /\ Len(hs[h].results) = 2
       /\ hs[h].results[1].id = 1 /\ hs[h].results[2].id = 2
  /\ media[1].recallCount > media[2].recallCount
  /\ media[1].createdAt < media[2].createdAt

\* in this step the key goes from present to absent in a session map
Removed(old, new, key) == old[key] # Absent /\ new[key] = Absent

\* in this step a due timer armed for the key of the store fires
TimerFired(store, key) ==
  /\ \E t \in timers : /\ t \notin timers' /\ t.store = store /\ t.key = key
                       /\ t.due <= now
  /\ hs' = hs

\* in this step a send action of user u ends, having been through sendMedia
SendEnds(u) ==
  \E h \in HandlerIds :
    /\ Returns(h) /\ hs[h].pc = "teardown"
    /\ hs[h].op = "recallBtn" /\ hs[h].act = "send" /\ hs[h].user = u

\* in this step a confirmDelete of user u ends that has emptied its list
ExhaustEnds(u) ==
  \E h \in HandlerIds :
    /\ Returns(h) /\ last'.r.out = "Exhausted"
    /\ hs[h].op = "deleteBtn" /\ hs[h].act = "confirm" /\ hs[h].user = u
    /\ heap[hs[h].arr].list = <<>>

\* the steps that never end a session: those of prev, next and editTags, and
\* the one in which a handler answers ItemMissing or a confirmDelete is denied
\* or fails
Harmless(h) ==
  /\ Steps(h)
  /\ \/ After(h).act \in {"prev", "next", "edit"}
     \/ After(h).out = "ItemMissing"
     \/ After(h).act = "confirm" /\ After(h).out \in {"Denied", "Threw"}

\* C29: a session key goes from present to absent only through the firing of
\* a TTL timer armed for it, a confirmDelete that has emptied the list, or a
\* send action; prev, next, editTags, a denied or failed confirmDelete and an
\* ItemMissing outcome never remove a session.
C29_SessionEndsOnlyBy ==
  [][/\ \A u \in Users :
          /\ Removed(recallSessions, recallSessions', u)
               => TimerFired("recall", u) \/ SendEnds(u)
          /\ Removed(deleteSessions, deleteSessions', u)
               => TimerFired("delete", u) \/ ExhaustEnds(u)
     /\ \A msg \in HandlerIds :
          Removed(topSessions, topSessions', msg) => TimerFired("top", msg)
     /\ \A h \in HandlerIds :
          Harmless(h) => UNCHANGED <<recallSessions, deleteSessions, topSessions>>]_vars

\* a confirmDelete has emptied the list and ended the delete session, whose
\* timer is still pending
C29_Witness ==
  /\ last.r.op = "deleteBtn" /\ last.r.out = "Exhausted"
  /\ deleteSessions[last.r.user] = Absent
  /\ \E t \in timers : t.store = "delete" /\ t.key = last.r.user

\* in this step handler h writes to the list it works on: the splice of a
\* confirmDelete or the assignment of an editTags
Commits(h) == Steps(h) /\ hs[h].pc \in {"splice", "editCommit"}

\* C30: session entries are value snapshots: a step that changes a Repository
\* record (recall-count increment, tag update, tombstoning) changes no session
\* list, and a session list changes only in the step in which a confirmDelete
\* or an editTags working on that very list commits to it; so the copy held in
\* any other session stays as it was.
C30_ValueSnapshots ==
  [][/\ media' # media => \A a \in 1..Len(heap) : heap'[a] = heap[a]
     /\ Len(heap') >= Len(heap)
     /\ \A a \in 1..Len(heap) :
          heap'[a] # heap[a] => \E h \in HandlerIds : Commits(h) /\ hs[h].arr = a]_vars

\* the tags of an item were edited through the user's recall session, whose
\* copy carries the new tags, while the copy in the user's delete session
\* still carries the old ones
C30_Witness ==
  \E u \in Users :
    /\ recallSessions[u] # Absent /\ deleteSessions[u] # Absent
    /\ last.r.op = "editModal" /\ last.r.out = "Updated"
    /\ last.r.arr = recallSessions[u]
    /\ LET m == last.r.media
           mine == heap[recallSessions[u]].list
           other == heap[deleteSessions[u]].list
       IN  /\ FindIndex(mine, m) # Absent /\ FindIndex(other, m) # Absent
           /\ mine[FindIndex(mine, m)].tags = media[m].tags
           /\ other[FindIndex(other, m)].tags = InitTags(m)
           /\ media[m].tags # InitTags(m)

C32_ReplyTargetOwnSession ==
  \A p \in posts : p.target # Absent => heap[p.session].target = p.target

\* C33: the session removal done at the end of a send action, or after a
\* confirmDelete that emptied the list, removes only the session the action
\* looked up at its start: when the user's key holds another session by then,
\* stored by a newer search while the action awaited I/O, that session is
\* still present afterwards.
C33_RemovesOwnSessionOnly ==
  [][\A h \in HandlerIds :
       /\ (Returns(h) /\ hs[h].pc = "teardown" /\ recallSessions[hs[h].user] # hs[h].arr)
            => recallSessions'[hs[h].user] = recallSessions[hs[h].user]
       /\ (Returns(h) /\ hs[h].pc = "evict" /\ deleteSessions[hs[h].user] # hs[h].arr)
            => deleteSessions'[hs[h].user] = deleteSessions[hs[h].user]]_vars

\* another editTags on the same item of the same list as that of handler h is
\* still in flight after this step
EditPending(h) ==
  \E g \in HandlerIds \ {h} :
    /\ hs'[g].pc \in EditPcs
    /\ hs'[g].arr = hs[h].arr /\ hs'[g].media = hs[h].media

\* C34: after any set of concurrent editTags actions on the same item of the
\* same session have all completed, the tags of that item's session entry
\* equal the tags the Repository holds for that item: so they do when an
\* editTags commits and no other one on that item and list is in flight.
C34_EditsConverge ==
  [][\A h \in HandlerIds :
       (hs[h].pc = "editCommit" /\ Returns(h) /\ ~EditPending(h)) =>
         LET list == heap'[hs[h].arr].list
             i == FindIndex(list, hs[h].media)
         IN  i # Absent => list[i].tags = media'[hs[h].media].tags]_vars

\* C35: a send action increments a record's recallCount and reports success
\* only if it actually posted the payload or its link to the destination;
\* when nothing was posted the count is unchanged.
C35_CountsOnlyDeliveries ==
  [][\A h \in HandlerIds :
       (hs[h].pc = "increment" /\ Steps(h) /\ ~Delivered(h)) =>
         /\ media' = media
         /\ hs'[h].out \notin {"Sent", "SentLink"}]_vars

\* in this step the deleteMedia call of handler h returns true
DeleteReturnsTrue(h) == hs[h].pc = "deleteUpdate" /\ hs'[h].pc = "splice"

\* C36: for each media record, across all deleteMedia calls including
\* concurrent ones, at most one call returns true, and every call on an
\* already tombstoned record returns false and leaves the tombstone timestamp
\* unchanged: a call returns true only on a record that was live until then,
\* and no step changes the timestamp of a tombstoned record.
C36_DeleteOnce ==
  [][/\ \A h \in HandlerIds :
          DeleteReturnsTrue(h) => media[hs[h].media].deletedAt = Null
     /\ \A m \in DOMAIN media :
          media[m].deletedAt # Null => media'[m].deletedAt = media[m].deletedAt]_vars

\* the item ids of a list, in its order
IdsOf(list) == [i \in 1..Len(list) |-> list[i].id]

\* s has no element twice
Distinct(s) == \A i, j \in 1..Len(s) : s[i] = s[j] => i = j

\* s is t with some elements left out
IsSubsequence(s, t) ==
  \E f \in [1..Len(s) -> 1..Len(t)] :
    /\ \A i, j \in 1..Len(s) : i < j => f[i] < f[j]
    /\ \A i \in 1..Len(s) : t[f[i]] = s[i]

\* C37: in every reachable state the item ids of a session's list are pairwise
\* distinct and form a subsequence of the id sequence stored when the session
\* was created: a list is created with distinct ids, and every step leaves of
\* each list's id sequence a subsequence of what it was, so that no action
\* inserts, duplicates or reorders items.
C37_ListsOnlyShrink ==
  [][/\ \A a \in 1..Len(heap') : Distinct(IdsOf(heap'[a].list))
     /\ \A a \in 1..Len(heap) :
          IsSubsequence(IdsOf(heap'[a].list), IdsOf(heap[a].list))]_vars

\* a confirmDelete has removed the first item of a delete list of two and
\* rendered the remaining one
C37_Witness ==
  /\ last.r.op = "deleteBtn" /\ last.r.act = "confirm" /\ last.r.out = "Deleted"
  /\ last.r.media = 2 /\ last.r.shown = 1
  /\ IdsOf(heap[last.r.arr].list) = <<1>>

\* C38: when a send was addressed to a reply target and the full payload is
\* rejected as too large, the link fallback is delivered as a reply to that
\* same target message, not as a fresh post.
C38_FallbackKeepsTarget ==
  [][\A h \in HandlerIds : (hs[h].pc = "fallback" /\ Steps(h)) =>
       \A p \in posts' \ posts : p.target = hs[h].target]_vars

====
